---- MODULE Spec2Model ----
(***************************************************************************)
(* Daily aggregation job of GrowVision/AI_analysis (scripts/daily_job.py). *)
(* raw_sales is a bag of sale events, feat_menu_daily a function from the  *)
(* primary key <<day, store_id, menu_id>> to the four aggregate columns.   *)
(* Instants are counted in half hours since 1970-01-01T00:00Z, calendar    *)
(* days in days since 1970-01-01.                                          *)
(***************************************************************************)
EXTENDS Integers, FiniteSets, Sequences, Bags, TLC

VARIABLES AGG_TZ, raw, feat, job, last, covered

vars == <<AGG_TZ, raw, feat, job, last, covered>>

(* ---------------- bounds ---------------- *)
MaxRaw == 2

(* ---------------- program constants ---------------- *)
MAX_YEARS_BACK == 5

(* ---------------- time ---------------- *)
TicksPerDay == 24 * 2

At(day, hh, mm) == day * TicksPerDay + hh * 2 + (mm \div 30)

\* zoneinfo / PostgreSQL offsets of the zones used, in half hours
Zones == {"UTC", "Asia/Tokyo"}

Offset(tz) == IF tz = "Asia/Tokyo" THEN 9 * 2 ELSE 0

\* datetime.strptime(s, "%Y-%m-%d").date() on the strings used: the day number of a
\* string of that format that names a calendar date, ValueError for any other
ValueError(s) == s \notin {"2025-08-19", "2025-08-20", "2025-08-21", "2025-08-22"}

strptime(s) ==
  CASE s = "2025-08-19" -> 20319
    [] s = "2025-08-20" -> 20320
    [] s = "2025-08-21" -> 20321
    [] s = "2025-08-22" -> 20322

\* ts.astimezone(tz).date()
LocalDate(t, tz) == (t + Offset(tz)) \div TicksPerDay

to_utc_range_for_local_day(day_local, tz) ==
  [start_utc |-> day_local * TicksPerDay - Offset(tz),
   end_utc   |-> (day_local + 1) * TicksPerDay - Offset(tz)]

(* ---------------- SQL of UPSERT_RANGE ---------------- *)
\* timestamptz AT TIME ZONE zone : the wall clock reading of the instant in zone
TstzAtTimeZone(ts, zone) == ts + Offset(zone)

\* timestamp AT TIME ZONE zone : the instant at which zone's wall clock reads w
TsAtTimeZone(w, zone) == w - Offset(zone)

\* the TimeZone setting of the sessions psycopg opens: the job sets none, the
\* server's default applies
SessionTimeZone == "UTC"

\* timestamptz::date : the calendar day in the session's TimeZone
CastDate(ts, session) == (ts + Offset(session)) \div TicksPerDay

\* (ts at time zone 'UTC' at time zone %(tz)s)::date
day_local_expr(ts, tz, session) ==
  CastDate(TsAtTimeZone(TstzAtTimeZone(ts, "UTC"), tz), session)

\* the where clause without its store filter
SelectedAllStores(rs, start_utc, end_utc, store_id) ==
  {e \in BagToSet(rs) : e.ts >= start_utc /\ e.ts < end_utc}

\* where ts >= start_utc and ts < end_utc and (store_id is null or store_id = ...)
Selected(rs, start_utc, end_utc, store_id) ==
  {e \in BagToSet(rs) : /\ e.ts >= start_utc
                        /\ e.ts < end_utc
                        /\ (store_id = {} \/ e.store_id \in store_id)}

GroupKey(e, tz, session) ==
  <<day_local_expr(e.ts, tz, session), e.store_id, e.menu_id>>

RECURSIVE FnSum(_)
FnSum(f) ==
  IF DOMAIN f = {} THEN 0
  ELSE LET x == CHOOSE y \in DOMAIN f : TRUE
       IN  f[x] + FnSum([y \in DOMAIN f \ {x} |-> f[y]])

\* avg(price)::numeric(10,2), in hundredths, rounded half away from zero
AvgNumeric2(total, n) == (200 * total + n) \div (2 * n)

GroupRow(rs, G) ==
  LET n == FnSum([e \in G |-> CopiesIn(e, rs)])
  IN [qty_sum   |-> FnSum([e \in G |-> CopiesIn(e, rs) * e.qty]),
      sales_sum |-> FnSum([e \in G |-> CopiesIn(e, rs) * e.qty * e.price]),
      orders    |-> n,
      avg_price |-> AvgNumeric2(FnSum([e \in G |-> CopiesIn(e, rs) * e.price]), n)]

\* do update set qty_sum = feat_menu_daily.qty_sum + excluded.qty_sum, ...
OnConflictAdd(old, excluded) ==
  [qty_sum   |-> old.qty_sum + excluded.qty_sum,
   sales_sum |-> old.sales_sum + excluded.sales_sum,
   orders    |-> old.orders + excluded.orders,
   avg_price |-> excluded.avg_price]

\* on conflict (day, store_id, menu_id) do nothing
OnConflictKeep(old, excluded) == old

\* on conflict (day, store_id, menu_id) do update set ... = excluded. ...
OnConflictUpdate(old, excluded) == excluded

UPSERT_RANGE(f, rs, start_utc, end_utc, store_id, tz, session) ==
  LET S    == Selected(rs, start_utc, end_utc, store_id)
      keys == {GroupKey(e, tz, session) : e \in S}
      grp(k) == {e \in S : GroupKey(e, tz, session) = k}
  IN [k \in (DOMAIN f) \cup keys |->
        IF k \in keys
        THEN IF k \in DOMAIN f THEN OnConflictUpdate(f[k], GroupRow(rs, grp(k)))
                               ELSE GroupRow(rs, grp(k))
        ELSE f[k]]

aggregate_range(f, rs, day_local, store_id, tz, session) ==
  LET r == to_utc_range_for_local_day(day_local, tz)
  IN UPSERT_RANGE(f, rs, r.start_utc, r.end_utc, store_id, tz, session)

(* ---------------- inputs ---------------- *)
Procs == {1, 2}

Stores == {1, 2}

Qtys == {1, 2}

\* instants of the raw events: 2025-08-20 09:30Z, 15:00Z, 15:30Z and 2025-08-21 00:00Z
TsSet == {At(20320, 9, 30), At(20320, 15, 0), At(20320, 15, 30), At(20321, 0, 0)}

\* the rows written to raw_sales: ramen, sold at 1200 until 15:00Z and at 1001 after
Events ==
  {[store_id |-> s, ts |-> t, menu_id |-> "ramen", qty |-> q,
    price |-> IF t <= At(20320, 15, 0) THEN 1200 ELSE 1001] :
     s \in Stores, t \in TsSet, q \in Qtys}

\* values of the environment variable AGG_TZ
TzNames == Zones \cup {"Mars/Olympus"}

\* datetime.now(): 2025-08-22T01:00Z, and 365 * MAX_YEARS_BACK days after 2025-08-21T01:00Z
NowSet == {At(20322, 1, 0), At(20321 + 365 * MAX_YEARS_BACK, 1, 0)}

\* argparse values of --from and --to: {} is an absent option
FromArgs == {{}, {""}, {"2025-13-01"}, {"2025-08-20"}}

ToArgs == {{}, {""}, {"21/08/2025"}, {"2025-08-22"}}

\* argparse values of --store-id: {} is an absent option
StoreArgs == {{}, {1}}

Only(S) == CHOOSE x \in S : TRUE

\* the truth value Python gives an optional string: None and "" are false
Truthy(arg) == arg # {} /\ arg # {""}

(* ---------------- state ---------------- *)
EmptyFeat == [k \in {} |-> {}]

\* a process that is not running: no connection, no loop variables
Ended(pc) ==
  [pc |-> pc, mode |-> "none", store_id |-> {}, first_day |-> 0, cur_day |-> 0,
   dt |-> 0, last_local_day |-> 0, min_day |-> 0, count |-> 0, conns |-> 0]

\* the statement executed last: its local day and store filter, whether a row it
\* selects was written to raw_sales since, whether it repeated the statement before
\* it on unchanged rows (twice) or on changed rows (re), whether it changed a row
\* that existed when it repeated on changed rows
NoLast ==
  [day |-> 0, store_id |-> {}, dirty |-> FALSE, twice |-> FALSE, re |-> FALSE,
   overwrote |-> FALSE]

Init ==
  /\ AGG_TZ \in TzNames
  /\ raw = EmptyBag
  /\ feat = EmptyFeat
  /\ job = [p \in Procs |-> Ended("idle")]
  /\ last = NoLast
  /\ covered = {}

Stopped(p) == job[p].pc \in {"idle", "done", "failed", "rejected"}

\* SystemExit, or ZoneInfoNotFoundError out of ZoneInfo(AGG_TZ)
Exit(p, pc) == job' = [job EXCEPT ![p] = Ended(pc)]

\* with psycopg.connect(DB_URL, autocommit=True) as conn: ensure_schema_and_indexes(conn)
Connect(p, mode, store_id, first, dt, last_local_day, min_day, conns) ==
  job' = [job EXCEPT ![p] =
            [pc |-> "loop", mode |-> mode, store_id |-> store_id, first_day |-> first,
             cur_day |-> first, dt |-> dt, last_local_day |-> last_local_day,
             min_day |-> min_day, count |-> 0, conns |-> conns]]

\* cur.execute(UPSERT_RANGE, ...) on an autocommit connection
Execute(day_local, store_id) ==
  feat' = aggregate_range(feat, raw, day_local, store_id, AGG_TZ, SessionTimeZone)

\* the record of the statement process p executes in this step
Track(p) ==
  LET same == last.day = job[p].cur_day /\ last.store_id = job[p].store_id
  IN last' = [day |-> job[p].cur_day, store_id |-> job[p].store_id, dirty |-> FALSE,
              twice |-> same /\ ~last.dirty,
              re    |-> same /\ last.dirty,
              overwrote |-> same /\ last.dirty /\ \E k \in DOMAIN feat : feat'[k] # feat[k]]

(* ---------------- raw_sales writers ---------------- *)
InLast(e) ==
  LET r == to_utc_range_for_local_day(last.day, AGG_TZ)
  IN  e \in Selected(SetToBag({e}), r.start_utc, r.end_utc, last.store_id)

Touch(e) == last' = IF last.day # 0 /\ AGG_TZ \in Zones /\ InLast(e)
                    THEN [last EXCEPT !.dirty = TRUE] ELSE last

\* insert into raw_sales ... values (...)
AddRaw(e) ==
  /\ BagCardinality(raw) < MaxRaw
  /\ raw' = raw (+) SetToBag({e})
  /\ Touch(e)
  /\ UNCHANGED <<AGG_TZ, feat, job, covered>>

\* a correction of one row's qty
EditQty(e, q) ==
  /\ BagIn(e, raw)
  /\ q # e.qty
  /\ raw' = (raw (-) SetToBag({e})) (+) SetToBag({[e EXCEPT !.qty = q]})
  /\ Touch(e)
  /\ UNCHANGED <<AGG_TZ, feat, job, covered>>

(* ---------------- the job ---------------- *)
run_yesterday(p, store_id, now) ==
  /\ Stopped(p)
  /\ IF AGG_TZ \notin Zones
     THEN Exit(p, "rejected")
     ELSE LET today_local == LocalDate(now, AGG_TZ)
              target_day  == today_local - 1
          IN Connect(p, "yesterday", store_id, target_day, target_day + 1, 0, 0, 1)
  /\ UNCHANGED <<AGG_TZ, raw, feat, last, covered>>

yesterday_step(p) ==
  /\ job[p].pc = "loop" /\ job[p].mode = "yesterday"
  /\ Execute(job[p].cur_day, job[p].store_id)
  /\ Exit(p, "done")
  /\ UNCHANGED <<AGG_TZ, raw>>

\* run_range with a --to that fails to parse read as an absent --to
run_range_lenient(p, date_from, date_to, store_id) ==
  /\ Stopped(p)
  /\ IF AGG_TZ \notin Zones \/ ValueError(date_from)
     THEN Exit(p, "rejected")
     ELSE LET df == strptime(date_from)
              dt == IF Truthy(date_to) /\ ~ValueError(Only(date_to))
                    THEN strptime(Only(date_to)) ELSE df + 1
          IN Connect(p, "range", store_id, df, dt, 0, 0, 1)
  /\ UNCHANGED <<AGG_TZ, raw, feat, last, covered>>

run_range(p, date_from, date_to, store_id) ==
  /\ Stopped(p)
  /\ IF \/ AGG_TZ \notin Zones
        \/ ValueError(date_from)
        \/ (Truthy(date_to) /\ ValueError(Only(date_to)))
     THEN Exit(p, "rejected")
     ELSE LET df == strptime(date_from)
              dt == IF Truthy(date_to) THEN strptime(Only(date_to)) ELSE df + 1
          IN Connect(p, "range", store_id, df, dt, 0, 0, 1)
  /\ UNCHANGED <<AGG_TZ, raw, feat, last, covered>>

range_step(p) ==
  /\ job[p].pc = "loop" /\ job[p].mode = "range"
  /\ job[p].cur_day < job[p].dt
  /\ Execute(job[p].cur_day, job[p].store_id)
  /\ job' = [job EXCEPT ![p].cur_day = @ + 1, ![p].count = @ + 1]
  /\ UNCHANGED <<AGG_TZ, raw>>

range_done(p) ==
  /\ job[p].pc = "loop" /\ job[p].mode = "range"
  /\ ~(job[p].cur_day < job[p].dt)
  /\ Exit(p, "done")
  /\ UNCHANGED <<AGG_TZ, raw, feat, last, covered>>

run_all(p, store_id, now) ==
  /\ Stopped(p)
  /\ IF AGG_TZ \notin Zones
     THEN Exit(p, "rejected")
     ELSE LET min_day == LocalDate(now - 365 * MAX_YEARS_BACK * TicksPerDay, AGG_TZ)
              rows    == {e \in BagToSet(raw) : store_id = {} \/ e.store_id \in store_id}
              min_ts  == CHOOSE t \in {e.ts : e \in rows} : \A e \in rows : t <= e.ts
              max_ts  == CHOOSE t \in {e.ts : e \in rows} : \A e \in rows : t >= e.ts
              first_local_day == LocalDate(min_ts, AGG_TZ)
              last_local_day  == LocalDate(max_ts, AGG_TZ)
              first   == IF first_local_day < min_day THEN min_day ELSE first_local_day
          IN IF rows = {}
             THEN Exit(p, "done")
             ELSE Connect(p, "all", store_id, first, 0, last_local_day, min_day, 2)
  /\ UNCHANGED <<AGG_TZ, raw, feat, last, covered>>

all_step(p) ==
  /\ job[p].pc = "loop" /\ job[p].mode = "all"
  /\ job[p].cur_day <= job[p].last_local_day
  /\ Execute(job[p].cur_day, job[p].store_id)
  /\ job' = [job EXCEPT ![p].cur_day = @ + 1, ![p].count = @ + 1]
  /\ UNCHANGED <<AGG_TZ, raw>>

all_done(p) ==
  /\ job[p].pc = "loop" /\ job[p].mode = "all"
  /\ ~(job[p].cur_day <= job[p].last_local_day)
  /\ Exit(p, "done")
  /\ UNCHANGED <<AGG_TZ, raw, feat, last, covered>>

\* psycopg raises on the statement of cur_day: the exception leaves the loop
storage_error(p) ==
  /\ job[p].pc = "loop"
  /\ \/ job[p].mode = "yesterday"
     \/ job[p].mode = "range" /\ job[p].cur_day < job[p].dt
     \/ job[p].mode = "all" /\ job[p].cur_day <= job[p].last_local_day
  /\ Exit(p, "failed")
  /\ UNCHANGED <<AGG_TZ, raw, feat, last, covered>>

\* main(argv) with --mode range
main_range(p, date_from, date_to, store_id) ==
  IF ~Truthy(date_from)
  THEN /\ Stopped(p)
       /\ Exit(p, "rejected")
       /\ UNCHANGED <<AGG_TZ, raw, feat, last, covered>>
  ELSE run_range(p, Only(date_from), date_to, store_id)

\* main(argv): the parsed --mode, --from, --to and --store-id
main(p) ==
  \E store_id \in StoreArgs :
    \/ run_yesterday(p, store_id, At(20322, 1, 0))
    \/ \E date_from \in FromArgs, date_to \in ToArgs :
         main_range(p, date_from, date_to, store_id)
    \/ \E now \in NowSet : run_all(p, store_id, now)

Next ==
  \/ \E e \in Events : AddRaw(e)
  \/ \E e \in Events, q \in Qtys : EditQty(e, q)
  \/ main(1)
  \/ yesterday_step(1) /\ UNCHANGED <<last, covered>>
  \/ range_step(1) /\ UNCHANGED <<last, covered>>
  \/ range_done(1)
  \/ all_step(1) /\ UNCHANGED <<last, covered>>
  \/ all_done(1)
  \/ storage_error(1)

Spec == Init /\ [][Next]_vars

(* ---------------- re-running one day ---------------- *)
\* the runs of one local day, 2025-08-20 by --from and 2025-08-21 as yesterday, with
\* raw_sales written between the runs and the record of the last statement kept
NextRerun ==
  \/ Stopped(1) /\ \E e \in Events : AddRaw(e)
  \/ Stopped(1) /\ \E e \in Events, q \in Qtys : EditQty(e, q)
  \/ \E store_id \in StoreArgs : run_yesterday(1, store_id, At(20322, 1, 0))
  \/ \E store_id \in StoreArgs : run_range(1, "2025-08-20", {}, store_id)
  \/ yesterday_step(1) /\ Track(1) /\ UNCHANGED covered
  \/ range_step(1) /\ Track(1) /\ UNCHANGED covered
  \/ range_done(1)

SpecRerun == Init /\ [][NextRerun]_vars

(* ---------------- runs over fixed raw data ---------------- *)
RECURSIVE RawUpTo(_)
RawUpTo(n) ==
  IF n = 0 THEN {EmptyBag}
  ELSE LET B == RawUpTo(n - 1)
       IN  B \cup {b (+) SetToBag({e}) : b \in B, e \in Events}

InitFixed ==
  /\ AGG_TZ \in TzNames
  /\ raw \in RawUpTo(MaxRaw)
  /\ feat = EmptyFeat
  /\ job = [p \in Procs |-> Ended("idle")]
  /\ last = NoLast
  /\ covered = {}

\* one process, raw_sales not written
NextFixed ==
  \/ main(1)
  \/ yesterday_step(1) /\ UNCHANGED <<last, covered>>
  \/ range_step(1) /\ UNCHANGED <<last, covered>>
  \/ range_done(1)
  \/ all_step(1) /\ UNCHANGED <<last, covered>>
  \/ all_done(1)
  \/ storage_error(1)

SpecFixed == InitFixed /\ [][NextFixed]_vars

\* two invocations of mode range from 2025-08-20, each started once, with the local
\* days their statements covered
NextConc ==
  \E p \in Procs :
    \/ /\ job[p].pc = "idle"
       /\ \E date_to \in {{}, {"2025-08-22"}} : run_range(p, "2025-08-20", date_to, {})
    \/ /\ range_step(p)
       /\ covered' = covered \cup {job[p].cur_day}
       /\ UNCHANGED last
    \/ range_done(p)

SpecConc == InitFixed /\ [][NextConc]_vars

(* ---------------- properties ---------------- *)
\* the step in which process p executes the statement of its cur_day
UpsertStep(p) ==
  /\ job[p].pc = "loop"
  /\ \/ job'[p].count = job[p].count + 1
     \/ job[p].mode = "yesterday" /\ job'[p].pc = "done"

\* the rows of raw_sales with ts in [start_utc(D), end_utc(D)) that pass the filter
InDay(D, store_id) ==
  {e \in BagToSet(raw) :
     /\ e.ts >= to_utc_range_for_local_day(D, AGG_TZ).start_utc
     /\ e.ts < to_utc_range_for_local_day(D, AGG_TZ).end_utc
     /\ (store_id = {} \/ e.store_id \in store_id)}

\* sum(qty), sum(qty*price), count(*) and sum(price) over the rows G of raw_sales
TotalQty(G) == FnSum([e \in G |-> CopiesIn(e, raw) * e.qty])

TotalSale(G) == FnSum([e \in G |-> CopiesIn(e, raw) * e.qty * e.price])

Count(G) == FnSum([e \in G |-> CopiesIn(e, raw)])

TotalPrice(G) == FnSum([e \in G |-> CopiesIn(e, raw) * e.price])

\* row holds the aggregates of the rows G of raw_sales, avg_price being the mean
\* price in hundredths rounded half up
Aggregates(row, G) ==
  /\ row.qty_sum = TotalQty(G)
  /\ row.sales_sum = TotalSale(G)
  /\ row.orders = Count(G)
  /\ 2 * Count(G) * row.avg_price <= 200 * TotalPrice(G) + Count(G)
  /\ 200 * TotalPrice(G) + Count(G) < 2 * Count(G) * (row.avg_price + 1)

\* the rows of feat_menu_daily with a key in K are as they were
Untouched(K) ==
  /\ \A k \in K \cap DOMAIN feat' : k \in DOMAIN feat /\ feat'[k] = feat[k]
  /\ \A k \in K \cap DOMAIN feat : k \in DOMAIN feat'

Keys == DOMAIN feat \cup DOMAIN feat'

\* C1: a statement that repeats the statement before it (same local day, same store
\* filter, none of the rows it selects written in between) leaves every row of
\* feat_menu_daily, and the set of keys, as the first one left them
C1_Idempotent == [][last'.twice => feat' = feat]_vars

\* C1: a day with raw events has been aggregated twice in a row
C1_Witness ==
  /\ last.twice /\ ~last.dirty
  /\ \E e \in InDay(last.day, last.store_id) :
       GroupKey(e, AGG_TZ, SessionTimeZone) \in DOMAIN feat

\* C2: every raw event the statement of local day D selects is written into a row
\* whose day key is D
C2_DayKeyIsLocalDay ==
  [][UpsertStep(1) =>
       \A e \in InDay(job[1].cur_day, job[1].store_id) :
         /\ GroupKey(e, AGG_TZ, SessionTimeZone)[1] = job[1].cur_day
         /\ <<job[1].cur_day, e.store_id, e.menu_id>> \in DOMAIN feat']_vars

\* C3: after local day D is aggregated with no store filter, every store and menu
\* with raw events in [start_utc(D), end_utc(D)) has the row keyed (D, store, menu),
\* holding the sums and the count of exactly those events
C3_Complete ==
  [][(UpsertStep(1) /\ job[1].store_id = {}) =>
       \A e \in InDay(job[1].cur_day, {}) :
         LET k == <<job[1].cur_day, e.store_id, e.menu_id>>
             G == {g \in InDay(job[1].cur_day, {}) :
                     g.store_id = e.store_id /\ g.menu_id = e.menu_id}
         IN  /\ k \in DOMAIN feat'
             /\ feat'[k].qty_sum = TotalQty(G)
             /\ feat'[k].sales_sum = TotalSale(G)
             /\ feat'[k].orders = Count(G)]_vars

\* C4: the statement of local day K does not select an event at end_utc(K), and it
\* counts an event at start_utc(K), the end of day K - 1, in the row keyed by day K
\* and changes no row keyed by day K - 1
C4_Boundary ==
  [][UpsertStep(1) =>
       LET K == job[1].cur_day
           r == to_utc_range_for_local_day(K, AGG_TZ)
       IN  \A e \in BagToSet(raw) :
             (job[1].store_id = {} \/ e.store_id \in job[1].store_id) =>
               /\ e.ts = r.end_utc => e \notin InDay(K, job[1].store_id)
               /\ e.ts = r.start_utc =>
                    /\ <<K, e.store_id, e.menu_id>> \in DOMAIN feat'
                    /\ Untouched({<<K - 1, e.store_id, e.menu_id>>})]_vars

\* C5: a run with a store filter creates and changes no row of another store
C5_StoreIsolation ==
  [][(job[1].pc = "loop" /\ job[1].store_id # {}) =>
       Untouched({k \in Keys : k[2] \notin job[1].store_id})]_vars

\* C5: a run of mode all filtered to store 1 has written rows of store 1 while store 2
\* has raw events in the range of the first day it aggregated
C5_Witness ==
  /\ job[1].pc = "loop" /\ job[1].mode = "all" /\ job[1].store_id = {1}
  /\ job[1].count > 0
  /\ \E e \in InDay(job[1].first_day, {}) : e.store_id = 2
  /\ \E k \in DOMAIN feat : k[2] = 1
  /\ \A k \in DOMAIN feat : k[2] = 1

\* C6: when a day is aggregated again after rows it selects were edited or added,
\* every row the statement writes holds the aggregates of the current raw events
\* of its group
C6_Replaced ==
  (last.re /\ ~last.dirty) =>
    \A e \in InDay(last.day, last.store_id) :
      LET k == GroupKey(e, AGG_TZ, SessionTimeZone)
          G == {g \in InDay(last.day, last.store_id) :
                  GroupKey(g, AGG_TZ, SessionTimeZone) = k}
      IN  k \in DOMAIN feat /\ Aggregates(feat[k], G)

\* C6: a day was aggregated, a row it selects changed, and aggregating the day again
\* changed a summary row that existed
C6_Witness == last.re /\ ~last.dirty /\ last.overwrote

\* C7: a run of mode all over raw data reaching back before the bound day B
\* aggregates local days from B to the local day of the latest event only, and
\* creates and changes no row with a day before B
C7_BackfillBound ==
  [][(/\ job[1].pc = "loop" /\ job[1].mode = "all"
      /\ \E e \in BagToSet(raw) : LocalDate(e.ts, AGG_TZ) < job[1].min_day) =>
       /\ UpsertStep(1) => /\ job[1].min_day <= job[1].cur_day
                           /\ job[1].cur_day <= job[1].last_local_day
       /\ Untouched({k \in Keys : k[1] < job[1].min_day})]_vars

Unparsable(arg) == arg # {} /\ ValueError(Only(arg))

\* a step of process 1 out of a stopped state is an invocation: one that ends
\* rejected has opened no connection and left feat_menu_daily as it was, and one
\* that does not has a known AGG_TZ and is no invocation of mode range with
\* arguments in Bad
RejectsBeforeStorage(Bad) ==
  (Stopped(1) /\ job' # job) =>
    IF job'[1].pc = "rejected"
    THEN job'[1].conns = 0 /\ feat' = feat
    ELSE /\ AGG_TZ \in Zones
         /\ \A a \in Bad, store_id \in StoreArgs : ~main_range(1, a[1], a[2], store_id)

\* C8 as stated: an invocation of mode range with --from missing or unparsable, or
\* with --to unparsable, and any invocation under an unknown AGG_TZ, ends rejected
\* with no connection opened and feat_menu_daily as it was
C8_Original ==
  [][RejectsBeforeStorage(
       {a \in FromArgs \X ToArgs :
          a[1] = {} \/ Unparsable(a[1]) \/ Unparsable(a[2])})]_vars

\* C8: an invocation of mode range with --from missing, empty or unparsable, or with
\* a non-empty unparsable --to, and any invocation under an unknown AGG_TZ, ends
\* rejected with no connection opened and feat_menu_daily as it was
C8_Rejected ==
  [][RejectsBeforeStorage(
       {a \in FromArgs \X ToArgs :
          a[1] = {} \/ Unparsable(a[1]) \/ (a[2] # {""} /\ Unparsable(a[2]))})]_vars

\* C8: an invocation was rejected under a known timezone with rows in the table
C8_Witness ==
  /\ job[1].pc = "rejected"
  /\ AGG_TZ \in Zones
  /\ feat # EmptyFeat

RECURSIVE SingleRun(_, _, _)
SingleRun(f, day, end) ==
  IF day > end THEN f
  ELSE SingleRun(aggregate_range(f, raw, day, {}, AGG_TZ, SessionTimeZone), day + 1, end)

\* C9: when both invocations are done, feat_menu_daily is what a single run over the
\* union of their days leaves
C9_Converges ==
  (\A p \in Procs : job[p].pc = "done") =>
    feat = IF covered = {} THEN EmptyFeat
           ELSE SingleRun(EmptyFeat,
                          CHOOSE d \in covered : \A c \in covered : d <= c,
                          CHOOSE d \in covered : \A c \in covered : d >= c)

\* C10: in a run of mode range or all over fixed raw data, no step changes or removes
\* a row keyed by a day the run has already aggregated, and a storage failure
\* changes no row
C10_CommittedDaysIntact ==
  [][(job[1].pc = "loop" /\ job[1].mode \in {"range", "all"}) =>
       /\ Untouched({k \in Keys : /\ job[1].first_day <= k[1]
                                  /\ k[1] < job[1].cur_day})
       /\ job'[1].pc = "failed" => feat' = feat]_vars

====
